---------------------------- MODULE Spec2Model ----------------------------
(***************************************************************************)
(* TinyAD9833: serial command interpreter driving an AD9833 DDS over a     *)
(* bit-banged three-wire bus (src/TinyAD9833.ino).                         *)
(*                                                                         *)
(* Target: Digispark ATtiny85 (DigiCDC.h), avr-gcc.  There                 *)
(*   byte          = 8 bit unsigned,                                       *)
(*   word          = 16 bit unsigned,                                      *)
(*   unsigned long = 32 bit unsigned, long = 32 bit signed,                *)
(*   double        = float = IEEE-754 binary32 (24 bit significand),       *)
(*   round(x)      = the Arduino macro (long)((x)+0.5) for x >= 0.         *)
(* TLC's integers are 32 bit signed, so 32 bit unsigned values are kept as *)
(* two 16 bit halves and binary32 numbers as significand and exponent.     *)
(***************************************************************************)
EXTENDS Integers, Sequences, FiniteSets, TLC

\* ------------------------------------------------------------------------
\* Bit helpers
\* ------------------------------------------------------------------------

Pow2(n) == 2 ^ n

RECURSIVE BitLen(_)
\* number of significant bits of n >= 0
BitLen(n) == IF n = 0 THEN 0 ELSE 1 + BitLen(n \div 2)

RECURSIVE BitAnd(_, _)
BitAnd(a, b) ==
    IF a = 0 \/ b = 0 THEN 0
    ELSE (IF a % 2 = 1 /\ b % 2 = 1 THEN 1 ELSE 0) + 2 * BitAnd(a \div 2, b \div 2)

RECURSIVE BitOr(_, _)
BitOr(a, b) ==
    IF a = 0 THEN b
    ELSE IF b = 0 THEN a
    ELSE (IF a % 2 = 1 \/ b % 2 = 1 THEN 1 ELSE 0) + 2 * BitOr(a \div 2, b \div 2)

\* conversion to `word` (16 bit) and to `byte` (8 bit)
Word(n) == n % 65536
Byte(n) == n % 256

\* ------------------------------------------------------------------------
\* unsigned long (32 bit), kept as two 16 bit halves
\* ------------------------------------------------------------------------

U32(n) == [hi |-> (n \div 65536) % 65536, lo |-> n % 65536]

\* y * k modulo 2^32, for a small factor k
U32MulSmall(y, k) ==
    LET l == y.lo * k
    IN  [hi |-> (y.hi * k + l \div 65536) % 65536, lo |-> l % 65536]

U32IsZero(y) == y.hi = 0 /\ y.lo = 0

\* the value of y when it is below 2^31
U32Int(y) == y.hi * 65536 + y.lo

\* ------------------------------------------------------------------------
\* double (binary32): value m * 2^e with m = 0 or 2^23 <= m < 2^24;
\* only values >= 0 arise.  Round to nearest, ties to even.
\* ------------------------------------------------------------------------

FZero == [cls |-> "num", m |-> 0, e |-> 0]
FInf  == [cls |-> "inf", m |-> 0, e |-> 0]
FNaN  == [cls |-> "nan", m |-> 0, e |-> 0]

\* the binary32 nearest to the exact value x with n * 2^e <= x < (n+1) * 2^e,
\* where sticky says x > n * 2^e (then n must have more than 24 bits)
RoundF(n, sticky, e) ==
    IF n = 0 THEN FZero
    ELSE LET L == BitLen(n)
         IN  IF L <= 24
             THEN [cls |-> "num", m |-> n * Pow2(24 - L), e |-> e - (24 - L)]
             ELSE LET s    == L - 24
                      q    == n \div Pow2(s)
                      r    == n % Pow2(s)
                      half == Pow2(s - 1)
                      up   == r > half \/ (r = half /\ (sticky \/ q % 2 = 1))
                      q2   == IF up THEN q + 1 ELSE q
                  IN  IF q2 = 16777216
                      THEN [cls |-> "num", m |-> 8388608, e |-> e + s + 1]
                      ELSE [cls |-> "num", m |-> q2, e |-> e + s]

\* double( unsigned long )
FFromU32(y) ==
    IF y.hi < 32768
    THEN RoundF(U32Int(y), FALSE, 0)
    ELSE \* 32 significant bits: drop 8
         LET q  == y.hi * 256 + y.lo \div 256
             r  == y.lo % 256
             up == r > 128 \/ (r = 128 /\ q % 2 = 1)
             q2 == IF up THEN q + 1 ELSE q
         IN  IF q2 = 16777216
             THEN [cls |-> "num", m |-> 8388608, e |-> 9]
             ELSE [cls |-> "num", m |-> q2, e |-> 8]

FFromInt(n) == RoundF(n, FALSE, 0)

FIsZero(a) == a.cls = "num" /\ a.m = 0

\* a * b
FMul(a, b) ==
    IF a.cls = "nan" \/ b.cls = "nan" THEN FNaN
    ELSE IF a.cls = "inf" \/ b.cls = "inf"
         THEN (IF FIsZero(a) \/ FIsZero(b) THEN FNaN ELSE FInf)
    ELSE IF a.m = 0 \/ b.m = 0 THEN FZero
    ELSE LET ah  == a.m \div 4096
             al  == a.m % 4096
             bh  == b.m \div 4096
             bl  == b.m % 4096
             mid == ah * bl + al * bh
             t   == al * bl + (mid % 4096) * 4096
             lo  == t % 16777216
             hi  == ah * bh + mid \div 4096 + t \div 16777216
             \* a.m * b.m = hi * 2^24 + lo, in [2^46, 2^48)
             e0  == a.e + b.e
         IN  IF hi >= 8388608
             THEN LET up == lo > 8388608 \/ (lo = 8388608 /\ hi % 2 = 1)
                      q2 == IF up THEN hi + 1 ELSE hi
                  IN  IF q2 = 16777216
                      THEN [cls |-> "num", m |-> 8388608, e |-> e0 + 25]
                      ELSE [cls |-> "num", m |-> q2, e |-> e0 + 24]
             ELSE LET q  == hi * 2 + lo \div 8388608
                      r  == lo % 8388608
                      up == r > 4194304 \/ (r = 4194304 /\ q % 2 = 1)
                      q2 == IF up THEN q + 1 ELSE q
                  IN  IF q2 = 16777216
                      THEN [cls |-> "num", m |-> 8388608, e |-> e0 + 24]
                      ELSE [cls |-> "num", m |-> q2, e |-> e0 + 23]

\* one step of the long division by d: seven more quotient bits
DivChunk(qr, d) ==
    [q |-> qr.q * 128 + (qr.r * 128) \div d, r |-> (qr.r * 128) % d]

\* a / b
FDiv(a, b) ==
    IF a.cls = "nan" \/ b.cls = "nan" THEN FNaN
    ELSE IF a.cls = "inf" THEN (IF b.cls = "inf" THEN FNaN ELSE FInf)
    ELSE IF b.cls = "inf" THEN FZero
    ELSE IF b.m = 0 THEN (IF a.m = 0 THEN FNaN ELSE FInf)
    ELSE IF a.m = 0 THEN FZero
    ELSE LET s0 == [q |-> a.m \div b.m, r |-> a.m % b.m]
             s4 == DivChunk(DivChunk(DivChunk(DivChunk(s0, b.m), b.m), b.m), b.m)
             \* s4.q = floor(a.m * 2^28 / b.m), in [2^27, 2^29)
         IN  RoundF(s4.q, s4.r # 0, a.e - b.e - 28)

\* a + b for finite a, b
FAdd(a, b) ==
    IF a.cls # "num" THEN a
    ELSE IF b.cls # "num" THEN b
    ELSE IF a.m = 0 THEN b
    ELSE IF b.m = 0 THEN a
    ELSE LET big   == IF a.e >= b.e THEN a ELSE b
             small == IF a.e >= b.e THEN b ELSE a
             d     == big.e - small.e
         IN  IF d >= 27
             THEN big
             ELSE LET sm == small.m * 8
                      n  == big.m * 8 + sm \div Pow2(d)
                  IN  RoundF(n, sm % Pow2(d) # 0, big.e - 3)

\* a < b for finite a, b >= 0
FLess(a, b) ==
    IF a.cls # "num" \/ b.cls # "num" THEN a.cls = "num" /\ b.cls = "inf"
    ELSE IF b.m = 0 THEN FALSE
    ELSE IF a.m = 0 THEN TRUE
    ELSE a.e < b.e \/ (a.e = b.e /\ a.m < b.m)

\* a is finite and below 2^31, the range of long
FInLong(a) == a.cls = "num" /\ (a.m = 0 \/ a.e + 24 <= 31)

\* (long) a for a in the range of long: truncation
FTrunc(a) ==
    IF a.m = 0 THEN 0
    ELSE IF a.e >= 0 THEN a.m * Pow2(a.e)
    ELSE IF a.e <= -24 THEN 0
    ELSE a.m \div Pow2(-a.e)


\* ------------------------------------------------------------------------
\* Program constants
\* ------------------------------------------------------------------------

numberOfDigits == 8

\* typical control register values
wReset      == 256
wSine       == 0
wTriangle   == 2
wRectangle  == 40
wRectangle2 == 32

\* character codes
ChDot   == 46
ChSpace == 32
Ch0     == 48
Ch9     == 57

IsDigit(ch) == ch >= Ch0 /\ ch <= Ch9

\* toupper() on an ASCII character
ToUpper(ch) == IF ch >= 97 /\ ch <= 122 THEN ch - 32 ELSE ch

\* the letters of the switch in parseCommand
ChQuery == 63
ChE == 69
ChK == 75
ChM == 77
ChN == 78
ChO == 79
ChS == 83
ChT == 84
ChZ == 90

\* ------------------------------------------------------------------------
\* State
\* ------------------------------------------------------------------------

VARIABLES
    digitArray,   \* byte digitArray[8], index 0 = lowest digit
    multiplier,   \* unsigned long, set by suffix 'k' and 'M'
    divider,      \* unsigned long (two halves), set by decimal point
    debug,        \* int8_t
    echo,         \* int8_t
    waveType,     \* word
    numeric,      \* static byte of parseCommand: number of numeric digits
    decimal,      \* static byte of parseCommand: position of the decimal point
    DDRB,         \* port B direction bits of PB0..PB2 (1 = output)
    PORTB,        \* port B output bits: DATA (PB0), FSYNC (PB1), CLK (PB2)
    pc,           \* "setup" before setup() has run, "loop" after
    \* position inside AD9833_writeRegister / initSigGen (pin-level runs)
    wpc, dat, iii,
    \* what the last call of setup() / parseCommand() did (observation)
    c,            \* the character read, 0 for setup()
    written,      \* the words passed to AD9833_writeRegister, in order
    serial,       \* what was written to SerialUSB, in order
    value,        \* the value parseValue() returned, NoValue if not called
    regFrequency, \* the register value after the clamp, -1 if none
    \* history of the input
    line,         \* the characters read since the last command character
    prev,         \* the command character that ended the line before, 0 if none
    keep,         \* whether the history of the input is kept
    \* history of the pins during the current word (pin-level runs)
    sent,         \* the word AD9833_writeRegister was called with
    edges,        \* the DATA level at each falling edge of CLK, in order
    \* the build and the memory of the last frequency command
    build,        \* what (long) does with a value outside the range of long
    last          \* the last S, T or N command and its words, if remembered

progVars == <<digitArray, multiplier, divider, debug, echo, waveType, numeric, decimal>>
obsVars  == <<c, written, serial, value, regFrequency>>
histVars == <<line, prev, keep, build, last>>
wireVars == <<wpc, dat, iii, sent, edges>>
vars == <<digitArray, multiplier, divider, debug, echo, waveType, numeric, decimal,
          DDRB, PORTB, pc, wpc, dat, iii, c, written, serial, value,
          regFrequency, line, prev, keep, sent, edges, build, last>>

NoValue == [cls |-> "none", m |-> 0, e |-> 0]

\* ------------------------------------------------------------------------
\* powerOf10, parseValue
\* ------------------------------------------------------------------------

RECURSIVE powerOf10(_)
\* y = 1; while ( x-- ) y = y * 10;   in unsigned long arithmetic
\* (four turns of the loop at a time while x >= 4: y * 10 * 10 * 10 * 10)
powerOf10(x) ==
    IF x = 0 THEN U32(1)
    ELSE IF x >= 4 THEN U32MulSmall(powerOf10(x - 4), 10000)
    ELSE U32MulSmall(powerOf10(x - 1), 10)

U32Add(a, b) ==
    LET l == a.lo + b.lo
    IN  [hi |-> (a.hi + b.hi + l \div 65536) % 65536, lo |-> l % 65536]

RECURSIVE RawFrom(_, _)
\* f = f + digitArray[ iii ] * powerOf10( iii ) for iii = from .. 7
RawFrom(da, from) ==
    IF from >= numberOfDigits THEN U32(0)
    ELSE U32Add(U32MulSmall(powerOf10(from), da[from]), RawFrom(da, from + 1))

RawInteger(da) == RawFrom(da, 0)

\* return double( f ) * multiplier / divider;
parseValue(da, mul, div) ==
    FDiv(FMul(FFromU32(RawInteger(da)), FFromInt(mul)), FFromU32(div))

\* ------------------------------------------------------------------------
\* AD9833_setFrequency: the register value and the three words
\* ------------------------------------------------------------------------

\* ( 0x10000000UL / 25000000.0 )
FreqFactor == FDiv(FFromU32(U32(268435456)), FFromInt(25000000))

F12e6 == FFromInt(12000000)
FHalf == [cls |-> "num", m |-> 8388608, e |-> -24]

\* Scaled with line 280 comparing the value in Hz, before the conversion
ScaledThresholdInHz(v, isFreq, wt) ==
    LET f1   == IF isFreq THEN FMul(v, FreqFactor) ELSE v
        half == isFreq /\ wt = wRectangle /\ FLess(v, F12e6)
    IN  [frequency |-> IF half THEN FMul(f1, FFromInt(2)) ELSE f1,
         waveType  |-> IF half THEN wRectangle2 ELSE wt]

\* frequency and waveType after the if ( isFreq ) block
Scaled(v, isFreq, wt) ==
    LET f1   == IF isFreq THEN FMul(v, FreqFactor) ELSE v
        half == isFreq /\ wt = wRectangle /\ FLess(f1, F12e6)
    IN  [frequency |-> IF half THEN FMul(f1, FFromInt(2)) ELSE f1,
         waveType  |-> IF half THEN wRectangle2 ELSE wt]

\* the low 32 bits of the integer s.m * 2^s.e, for s.e >= 8
Low32(s) ==
    IF s.e >= 32 THEN U32(0)
    ELSE IF s.e >= 16
         THEN [hi |-> (s.m % Pow2(32 - s.e)) * Pow2(s.e - 16), lo |-> 0]
         ELSE LET t == s.m % Pow2(32 - s.e)
              IN  [hi |-> t \div Pow2(16 - s.e), lo |-> (t % Pow2(16 - s.e)) * Pow2(s.e)]

\* (long) s for s outside the range of long is undefined: the conversion may
\* saturate to LONG_MIN or LONG_MAX, give 0, or keep the low 32 bits. A build
\* does one of these; with build = "any" the build is not fixed and every
\* conversion may do any of them.
Builds == {"min", "max", "zero", "wrap"}

LongOutOfRange(s) ==
    LET low == IF s.cls = "num" THEN Low32(s) ELSE U32(0)
    IN  {u \in {[hi |-> 32768, lo |-> 0]} : build \in {"any", "min"}}
            \cup {u \in {[hi |-> 32767, lo |-> 65535]} : build \in {"any", "max"}}
            \cup {u \in {U32(0)} : build \in {"any", "zero"}}
            \cup {u \in {low} : build \in {"any", "wrap"}}

\* regFrequency = round( frequency ), i.e. (long)( frequency + 0.5 ),
\* converted to unsigned long: the set of possible results
RoundLong(x) ==
    LET s == FAdd(x, FHalf)
    IN  IF FInLong(s) THEN {U32(FTrunc(s))} ELSE LongOutOfRange(s)

\* if ( regFrequency >= 0x8000000UL ) regFrequency = 0x7FFFFFFUL;
Clamp(u) == IF u.hi >= 2048 THEN 134217727 ELSE U32Int(u)

\* the LSB word addressed to the register Freq1: | 0x8000 instead of | 0x4000
LsbWordFreq1(reg) == Word(Word(reg % 16384) + 32768)

\* word( regFrequency & 0x3FFFUL ) | 0x4000UL
\* (x & 0x3FFF is x modulo 2^14; bit 14 is clear in it, so | 0x4000 adds 2^14)
LsbWord(reg) == Word(Word(reg % 16384) + 16384)
\* word( ( regFrequency & 0xFFFC000UL ) >> 14 ) | 0x4000
\* (x & 0xFFFC000 keeps bits 14..27: (x modulo 2^28) - (x modulo 2^14))
MsbWord(reg) == Word(Word(((reg % 268435456) - (reg % 16384)) \div 16384) + 16384)
\* the control word with the Reset bit left in: 0x2100 | waveType
CtrlWordWithReset(wt) == Word(BitOr(8448, wt))

\* 0x2000 | waveType
CtrlWord(wt) == Word(BitOr(8192, wt))

\* AD9833_reset writes 0x2100
ResetWord == 8448

\* AD9833_reset with line 267 active: the phase register is written as well
AD9833_resetWithPhase == <<ResetWord, 49152>>

\* the words AD9833_reset writes
AD9833_reset == <<ResetWord>>

\* AD9833_setFrequency writing the MSB word before the LSB word
AD9833_setFrequencyMsbFirst(isFreq, da, mul, div, wt) ==
    LET v  == parseValue(da, mul, div)
        sc == Scaled(v, isFreq, wt)
    IN  { [value        |-> v,
           waveType     |-> sc.waveType,
           regFrequency |-> Clamp(u),
           written      |-> <<MsbWord(Clamp(u)), LsbWord(Clamp(u)), CtrlWord(sc.waveType)>>]
          : u \in RoundLong(sc.frequency) }

\* the possible results of AD9833_setFrequency( isFreq )
AD9833_setFrequency(isFreq, da, mul, div, wt) ==
    LET v  == parseValue(da, mul, div)
        sc == Scaled(v, isFreq, wt)
    IN  { [value        |-> v,
           waveType     |-> sc.waveType,
           regFrequency |-> Clamp(u),
           written      |-> <<LsbWord(Clamp(u)), MsbWord(Clamp(u)), CtrlWord(sc.waveType)>>]
          : u \in RoundLong(sc.frequency) }

\* ------------------------------------------------------------------------
\* AD9833_writeRegister and initSigGen, pin by pin
\* ------------------------------------------------------------------------

\* lines 304-308 with the bits taken from the low end
ShiftOutLsbFirst(w) ==
    [w EXCEPT !.wpc = "clk_low",
              !.PORTB.DATA = w.dat % 2,
              !.dat = w.dat \div 2]

\* lines 304-308: if ( dat & 0x8000 ) DATA_HIGH(); else DATA_LOW(); dat = dat << 1;
ShiftOut(w) ==
    [w EXCEPT !.wpc = "clk_low",
              !.PORTB.DATA = IF BitAnd(w.dat, 32768) # 0 THEN 1 ELSE 0,
              !.dat = Word(w.dat * 2)]

\* line 309: CLK_LOW(); a falling edge of CLK samples DATA
ClockLow(w) ==
    [w EXCEPT !.wpc = "clk_up", !.PORTB.CLK = 0,
              !.edges = IF w.PORTB.CLK = 1
                        THEN Append(w.edges, w.PORTB.DATA) ELSE w.edges]

\* line 310 and the loop header: CLK_HIGH(); ++iii; iii < 16
ClockHigh(w) ==
    [w EXCEPT !.wpc = IF w.iii + 1 < 16 THEN "data" ELSE "fsync_high",
              !.PORTB.CLK = 1, !.iii = w.iii + 1]

\* line 312 left out: the function returns with FSYNC low
ReleaseMissing(w) == [w EXCEPT !.wpc = "idle"]

\* line 312: FSYNC_HIGH()
Release(w) == [w EXCEPT !.wpc = "idle", !.PORTB.FSYNC = 1]

\* one statement of initSigGen (lines 133-136) or AD9833_writeRegister
\* (lines 301-312) on w = [wpc, dat, iii, DDRB, PORTB, sent, edges]
WStep(w) ==
    CASE w.wpc = "boot" ->        \* DDRB |= _BV( PB0 ) | _BV( PB1 ) | _BV( PB2 )
            [w EXCEPT !.wpc = "init_fsync", !.DDRB = 7]
      [] w.wpc = "init_fsync" ->  \* FSYNC_HIGH()
            [w EXCEPT !.wpc = "init_clk", !.PORTB.FSYNC = 1]
      [] w.wpc = "init_clk" ->    \* CLK_HIGH(); AD9833_reset() calls writeRegister
            [w EXCEPT !.wpc = "clk_high", !.PORTB.CLK = 1,
                      !.dat = ResetWord, !.sent = ResetWord, !.edges = <<>>, !.iii = 0]
      [] w.wpc = "clk_high" ->    \* CLK_HIGH()
            [w EXCEPT !.wpc = "fsync_low", !.PORTB.CLK = 1]
      [] w.wpc = "fsync_low" ->   \* FSYNC_LOW(); iii = 0
            [w EXCEPT !.wpc = "data", !.PORTB.FSYNC = 0, !.iii = 0]
      [] w.wpc = "data"       -> ShiftOut(w)
      [] w.wpc = "clk_low"    -> ClockLow(w)
      [] w.wpc = "clk_up"     -> ClockHigh(w)
      [] w.wpc = "fsync_high" -> Release(w)
      [] OTHER -> w

\* entry of AD9833_writeRegister( word )
WCall(w, word) ==
    [w EXCEPT !.wpc = "clk_high", !.dat = word, !.iii = 0, !.sent = word, !.edges = <<>>]

RECURSIVE RunWire(_)
\* run to the return of AD9833_writeRegister
RunWire(w) == IF w.wpc = "idle" THEN w ELSE RunWire(WStep(w))

RECURSIVE AD9833_writeRegister(_, _)
\* the calls of AD9833_writeRegister for the words ws, in order
AD9833_writeRegister(w, ws) ==
    IF ws = <<>> THEN w
    ELSE AD9833_writeRegister(RunWire(WCall(w, Head(ws))), Tail(ws))

\* PORTB after the calls of AD9833_writeRegister for the words ws: each call
\* leaves DATA at the last bit sent and FSYNC and CLK high (lines 303-312)
PinsAfter(p, ws) ==
    IF ws = <<>> THEN p
    ELSE [DATA |-> ws[Len(ws)] % 2, FSYNC |-> 1, CLK |-> 1]

Wire == [wpc |-> wpc, dat |-> dat, iii |-> iii, DDRB |-> DDRB, PORTB |-> PORTB,
         sent |-> sent, edges |-> edges]

SetWire(w) ==
    /\ wpc' = w.wpc
    /\ dat' = w.dat
    /\ iii' = w.iii
    /\ DDRB' = w.DDRB
    /\ PORTB' = w.PORTB
    /\ sent' = w.sent
    /\ edges' = w.edges

\* ------------------------------------------------------------------------
\* parseCommand
\* ------------------------------------------------------------------------

RECURSIVE HexLines(_)
\* SerialUSB.println( dat, HEX ) of AD9833_writeRegister, for each word
HexLines(ws) == IF ws = <<>> THEN <<>> ELSE <<<<"hex", Head(ws)>>>> \o HexLines(Tail(ws))

DebugLines(ws) == IF debug # 0 THEN HexLines(ws) ELSE <<>>

NewLine  == <<<<"println", 0>>>>
HelpText == <<<<"showHelp", 0>>>>

\* char c = SerialUSB.read(): char is signed with avr-gcc, so the bytes
\* 128 .. 255 are the values -128 .. -1
SChar(b) == IF b >= 128 THEN b - 256 ELSE b

\* if ( echo && c >= ' ' ) SerialUSB.write( c );
Echo(ch) == IF echo # 0 /\ SChar(ch) >= ChSpace THEN <<<<"write", ch>>>> ELSE <<>>

\* the program state with nothing written to the chip
Unchanged(ch) ==
    [digitArray |-> digitArray, multiplier |-> multiplier, divider |-> divider,
     debug |-> debug, echo |-> echo, waveType |-> waveType,
     numeric |-> numeric, decimal |-> decimal,
     written |-> <<>>, serial |-> Echo(ch), value |-> NoValue, regFrequency |-> -1]

\* OnDigit shifting always: the array is never erased (line 162 without
\* the test of numeric)
OnDigitAlwaysShifts(ch) ==
    [Unchanged(ch) EXCEPT
        !.digitArray = [i \in 0 .. numberOfDigits - 1 |->
                           IF i = 0 THEN ch - Ch0 ELSE digitArray[i - 1]],
        !.numeric    = Byte(numeric + 1),
        !.multiplier = 1,
        !.divider    = U32(1)]

\* OnDigit without lines 166-167: a digit leaves multiplier and divider alone
OnDigitKeepsScale(ch) ==
    [Unchanged(ch) EXCEPT
        !.digitArray = [i \in 0 .. numberOfDigits - 1 |->
                           IF i = 0 THEN ch - Ch0
                           ELSE IF numeric # 0 THEN digitArray[i - 1] ELSE 0],
        !.numeric    = Byte(numeric + 1)]

\* lines 158-167: collect up to 8 digits
OnDigit(ch) ==
    [Unchanged(ch) EXCEPT
        !.digitArray = [i \in 0 .. numberOfDigits - 1 |->
                           IF i = 0 THEN ch - Ch0
                           ELSE IF numeric # 0 THEN digitArray[i - 1] ELSE 0],
        !.numeric    = Byte(numeric + 1),
        !.multiplier = 1,
        !.divider    = U32(1)]

\* OnDecimalPoint keeping the first position: a later '.' is ignored
OnDecimalPointOnce(ch) ==
    [Unchanged(ch) EXCEPT !.decimal = IF decimal = 0 THEN Byte(numeric + 1) ELSE decimal]

\* lines 168-169: decimal point
OnDecimalPoint(ch) ==
    [Unchanged(ch) EXCEPT !.decimal = Byte(numeric + 1)]

\* Terminated without lines 174-175: the entry state is kept
TerminatedKeepsEntry(ch) ==
    [Unchanged(ch) EXCEPT
        !.divider = IF decimal # 0 /\ numeric # 0
                    THEN powerOf10(Byte(numeric - decimal + 1))
                    ELSE divider]

\* Terminated with the exponent of line 172 one too small
TerminatedOffByOne(ch) ==
    [Unchanged(ch) EXCEPT
        !.divider = IF decimal # 0 /\ numeric # 0
                    THEN powerOf10(Byte(numeric - decimal))
                    ELSE divider,
        !.numeric = 0,
        !.decimal = 0]

\* lines 171-175: all other char terminate numeric input
Terminated(ch) ==
    [Unchanged(ch) EXCEPT
        !.divider = IF decimal # 0 /\ numeric # 0
                    THEN powerOf10(Byte(numeric - decimal + 1))
                    ELSE divider,
        !.numeric = 0,
        !.decimal = 0]

\* FrequencyCommand erasing digitArray once the words are written
FrequencyCommandClearsBuffer(t, wt, isFreq) ==
    { [t EXCEPT !.waveType     = r.waveType,
                !.value        = r.value,
                !.regFrequency = r.regFrequency,
                !.written      = r.written,
                !.digitArray   = [i \in 0 .. numberOfDigits - 1 |-> 0],
                !.serial       = t.serial \o NewLine \o DebugLines(r.written)]
      : r \in AD9833_setFrequency(isFreq, t.digitArray, t.multiplier, t.divider, wt) }

\* case 'N', 'S', 'T': waveType = wt; SerialUSB.println(); AD9833_setFrequency( isFreq )
FrequencyCommand(t, wt, isFreq) ==
    { [t EXCEPT !.waveType     = r.waveType,
                !.value        = r.value,
                !.regFrequency = r.regFrequency,
                !.written      = r.written,
                !.serial       = t.serial \o NewLine \o DebugLines(r.written)]
      : r \in AD9833_setFrequency(isFreq, t.digitArray, t.multiplier, t.divider, wt) }

\* lines 176-222: the switch on toupper( c )
OnTerminator(ch) ==
    LET t == Terminated(ch)
        u == ToUpper(ch)
    IN  CASE u = ChQuery -> {[t EXCEPT !.serial = t.serial \o NewLine \o HelpText]}
          [] u = ChE -> {[t EXCEPT !.serial = t.serial \o NewLine, !.echo = digitArray[0]]}
          [] u = ChK -> {[t EXCEPT !.multiplier = 1000]}
          [] u = ChM -> {[t EXCEPT !.multiplier = 1000000]}
          [] u = ChN -> FrequencyCommand(t, wSine, FALSE)
          [] u = ChO -> {[t EXCEPT !.serial  = t.serial \o NewLine \o DebugLines(AD9833_reset),
                                   !.written = AD9833_reset]}
          [] u = ChS -> FrequencyCommand(t, wSine, TRUE)
          [] u = ChT -> FrequencyCommand(t, wTriangle, TRUE)
          [] u = ChZ -> {[t EXCEPT !.serial = t.serial \o NewLine, !.debug = digitArray[0]]}
          [] OTHER   -> {t}

\* parseCommand with K and M handled before the terminator branch: they set
\* the multiplier and nothing else
parseCommandSuffixFirst(ch) ==
    IF IsDigit(ch) THEN {OnDigit(ch)}
    ELSE IF ch = ChDot THEN {OnDecimalPoint(ch)}
    ELSE IF ToUpper(ch) = ChK THEN {[Unchanged(ch) EXCEPT !.multiplier = 1000]}
    ELSE IF ToUpper(ch) = ChM THEN {[Unchanged(ch) EXCEPT !.multiplier = 1000000]}
    ELSE OnTerminator(ch)

\* parseCommand() with the character ch available: the possible results
parseCommand(ch) ==
    IF IsDigit(ch) THEN {OnDigit(ch)}
    ELSE IF ch = ChDot THEN {OnDecimalPoint(ch)}
    ELSE OnTerminator(ch)

\* ------------------------------------------------------------------------
\* History of the input
\* ------------------------------------------------------------------------

\* the characters that run a command; K and M are suffixes
IsCommand(ch) == ToUpper(ch) \in {ChQuery, ChE, ChN, ChO, ChS, ChT, ChZ}

\* the suffixes K and M
IsSuffix(ch) == ToUpper(ch) \in {ChK, ChM}

\* not a digit, not '.', not one of ? E K M N O S T Z in either case
IsUnrecognized(ch) == ~IsDigit(ch) /\ ch # ChDot /\ ~IsCommand(ch) /\ ~IsSuffix(ch)

LineDone == line # <<>> /\ IsCommand(line[Len(line)])
CurLine  == IF LineDone THEN <<>> ELSE line

Record(ch) ==
    /\ keep' = keep
    /\ IF keep
       THEN /\ line' = Append(CurLine, ch)
            /\ prev' = IF LineDone THEN line[Len(line)] ELSE prev
       ELSE UNCHANGED <<line, prev>>

\* the memory of the last frequency command: its letter, its words, how many
\* times it was given in a row (counted up to 2) with nothing but
\* unrecognized characters in between; cmd = -1 when nothing is remembered
NotRemembering == [cmd |-> -1, words |-> <<>>, times |-> 0]
NoCommand      == [cmd |-> 0, words |-> <<>>, times |-> 0]

Remember(ch, ws) ==
    /\ build' = build
    /\ last' = IF last.cmd = -1 THEN last
               ELSE IF ToUpper(ch) \in {ChN, ChS, ChT}
                    THEN [cmd   |-> ToUpper(ch),
                          words |-> ws,
                          times |-> IF last.cmd = ToUpper(ch) THEN 2 ELSE 1]
               ELSE IF IsUnrecognized(ch) THEN last
               ELSE NoCommand

\* ------------------------------------------------------------------------
\* Actions
\* ------------------------------------------------------------------------

\* digitArray starting with all digits 0
StartDigitsZero == [i \in 0 .. numberOfDigits - 1 |-> 0]

\* byte digitArray[ numberOfDigits ] = { 0, 0, 0, 1, 0, 0, 0, 0 };
StartDigits == [i \in 0 .. numberOfDigits - 1 |-> IF i = 3 THEN 1 ELSE 0]

\* the state at power-up, before setup()
InitWith(k) ==
    /\ digitArray = StartDigits
    /\ multiplier = 1
    /\ divider = U32(1)
    /\ debug = 0
    /\ echo = 1
    /\ waveType = wReset
    /\ numeric = 0
    /\ decimal = 0
    /\ DDRB = 0
    /\ PORTB = [DATA |-> 0, FSYNC |-> 0, CLK |-> 0]
    /\ pc = "setup"
    /\ wpc = "boot"
    /\ dat = 0
    /\ iii = 0
    /\ c = 0
    /\ written = <<>>
    /\ serial = <<>>
    /\ value = NoValue
    /\ regFrequency = -1
    /\ line = <<>>
    /\ prev = 0
    /\ keep = k
    /\ sent = 0
    /\ edges = <<>>

Init     == InitWith(FALSE) /\ build = "any" /\ last = NotRemembering
InitHist == InitWith(TRUE) /\ build = "any" /\ last = NotRemembering

\* setup(): initSigGen(); SerialUSB.begin(); AD9833_reset();
setup ==
    /\ pc = "setup"
    /\ wpc = "boot"
    /\ pc' = "loop"
    /\ wpc' = "idle"
    /\ DDRB' = 7
    /\ PORTB' = PinsAfter(PORTB, AD9833_reset \o AD9833_reset)
    /\ written' = AD9833_reset \o AD9833_reset
    /\ serial' = DebugLines(AD9833_reset \o AD9833_reset)
    /\ c' = 0
    /\ value' = NoValue
    /\ regFrequency' = -1
    /\ UNCHANGED <<progVars, histVars, dat, iii, sent, edges>>

\* loop(): parseCommand() reads the character ch
loop(ch) ==
    /\ pc = "loop"
    /\ wpc = "idle"
    /\ \E r \in parseCommand(ch) :
        /\ digitArray' = r.digitArray
        /\ multiplier' = r.multiplier
        /\ divider' = r.divider
        /\ debug' = r.debug
        /\ echo' = r.echo
        /\ waveType' = r.waveType
        /\ numeric' = r.numeric
        /\ decimal' = r.decimal
        /\ written' = r.written
        /\ serial' = r.serial
        /\ value' = r.value
        /\ regFrequency' = r.regFrequency
        /\ PORTB' = PinsAfter(PORTB, r.written)
        /\ Remember(ch, r.written)
    /\ c' = ch
    /\ Record(ch)
    /\ UNCHANGED <<pc, DDRB, wireVars>>

\* parseCommand() reading 'R' with the case 'R' of lines 212-215 enabled:
\* waveType = wRectangle; AD9833_setFrequency();
ChR == 82

rectangle ==
    /\ pc = "loop"
    /\ wpc = "idle"
    /\ \E r \in AD9833_setFrequency(TRUE, digitArray, Terminated(ChR).multiplier,
                                    Terminated(ChR).divider, wRectangle) :
        /\ divider' = Terminated(ChR).divider
        /\ waveType' = r.waveType
        /\ written' = r.written
        /\ serial' = Echo(ChR) \o DebugLines(r.written)
        /\ value' = r.value
        /\ regFrequency' = r.regFrequency
        /\ PORTB' = PinsAfter(PORTB, r.written)
    /\ numeric' = 0
    /\ decimal' = 0
    /\ c' = ChR
    /\ Record(ChR)
    /\ UNCHANGED <<build, last>>
    /\ UNCHANGED <<digitArray, multiplier, debug, echo, pc, DDRB, wireVars>>

\* one statement of initSigGen or AD9833_writeRegister
WireStep ==
    /\ wpc \notin {"idle"}
    /\ SetWire(WStep(Wire))
    /\ UNCHANGED <<progVars, obsVars, histVars, pc>>

\* a call of AD9833_writeRegister( word )
WireCall(word) ==
    /\ wpc = "idle"
    /\ SetWire(WCall(Wire, word))
    /\ UNCHANGED <<progVars, obsVars, histVars, pc>>

\* ------------------------------------------------------------------------
\* Specifications
\* ------------------------------------------------------------------------

\* Spec: every kind of character, numbers of at most MaxDigits digits
MaxDigits == 3

Digits   == {48, 53}
Suffixes == {75, 77, 109}
Commands == {63, 69, 78, 79, 83, 84, 90, 111, 115}
Others   == {13, 88}
Alphabet == Digits \cup {ChDot} \cup Suffixes \cup Commands \cup Others

Next ==
    \/ setup
    \/ \E ch \in Alphabet : (IsDigit(ch) => numeric < MaxDigits) /\ loop(ch)

Spec == Init /\ [][Next]_vars

\* SpecEncoder: AD9833_setFrequency with the waveform Rectangle, which the
\* program reaches only through the disabled command R
EncoderAlphabet == {48, 49, 53, 46, 75, 77, 83}

NextEncoder ==
    \/ setup
    \/ \E ch \in EncoderAlphabet : (IsDigit(ch) => numeric < MaxDigits) /\ loop(ch)
    \/ rectangle

SpecEncoder == Init /\ [][NextEncoder]_vars

\* SpecEcho: digits, the command E and characters without a meaning, among
\* them a control character and a byte above 127
EchoAlphabet == {48, 53, 69, 101, 88, 32, 13, 233}

NextEcho ==
    \/ setup
    \/ \E ch \in EchoAlphabet : (IsDigit(ch) => numeric < MaxDigits) /\ loop(ch)

SpecEcho == Init /\ [][NextEcho]_vars

\* SpecRepeat: frequency commands given again, for each fixed build, with
\* the last frequency command remembered
InitRepeat == InitWith(FALSE) /\ build \in Builds /\ last = NoCommand

RepeatAlphabet == {53, 46, 75, 77, 78, 83, 84, 115, 88, 32}

NextRepeat ==
    \/ setup
    \/ \E ch \in RepeatAlphabet : (IsDigit(ch) => numeric < MaxDigits) /\ loop(ch)

SpecRepeat == InitRepeat /\ [][NextRepeat]_vars

\* SpecWire: initSigGen and AD9833_writeRegister statement by statement, for
\* the words of WireWords: the words the program writes and every word whose
\* two bytes are equal
WireWords == {w \in 0 .. 65535 : w % 257 = 0} \cup {8448, 8192, 8194, 16384, 32767, 32768, 21845, 43690}

NextWire ==
    \/ WireStep
    \/ \E word \in WireWords : WireCall(word)

SpecWire == Init /\ [][NextWire]_vars

\* Typing lines with the history of the input kept: characters of the
\* alphabet A, at most max characters and MaxDots decimal points before the
\* command character; a line without a digit has at most one character
\* before its command
MaxDots == 2

HasDigit(s) == \E i \in 1 .. Len(s) : IsDigit(s[i])
Dots(s)     == Cardinality({i \in 1 .. Len(s) : s[i] = ChDot})

MayType(ch, max) ==
    IF IsCommand(ch) THEN TRUE
    ELSE /\ Len(CurLine) < max
         /\ ~(~IsDigit(ch) /\ CurLine # <<>> /\ ~HasDigit(CurLine))
         /\ ~(ch = ChDot /\ Dots(CurLine) >= MaxDots)

Typing(A, max) ==
    \/ setup
    \/ \E ch \in {x \in A : MayType(x, max)} : loop(ch)

\* SpecDigits: one digit character and the frequency commands, numbers of up
\* to MaxLong digits
MaxLong == 257

DigitsAlphabet == {49, 78, 83, 84}

SpecDigits == InitHist /\ [][Typing(DigitsAlphabet, MaxLong)]_vars

\* SpecPoint: digits and the decimal point, numbers of up to MaxPoint characters
MaxPoint == 10

PointAlphabet == {49, 53, 46, 83}

SpecPoint == InitHist /\ [][Typing(PointAlphabet, MaxPoint)]_vars

\* SpecSuffix: digits, the decimal point, the suffixes and characters without
\* a meaning, numbers of up to MaxSuffix characters
MaxSuffix == 5

SuffixAlphabet == {49, 53, 46, 75, 77, 32, 83}

SpecSuffix == InitHist /\ [][Typing(SuffixAlphabet, MaxSuffix)]_vars

\* SpecKilo: digits and the suffix K, numbers of up to MaxKilo characters
MaxKilo == 4

KiloAlphabet == {48, 53, 75, 83}

SpecKilo == InitHist /\ [][Typing(KiloAlphabet, MaxKilo)]_vars

\* SpecFraction: one digit character and the decimal point, numbers of up
\* to MaxFraction characters
MaxFraction == 33

FractionAlphabet == {49, 46, 83}

SpecFraction == InitHist /\ [][Typing(FractionAlphabet, MaxFraction)]_vars

\* ------------------------------------------------------------------------
\* Reading the history
\* ------------------------------------------------------------------------

Last(s)  == s[Len(s)]
Front(s) == SubSeq(s, 1, Len(s) - 1)

\* the last k elements of s (all of s when it is shorter)
LastN(s, k) == IF Len(s) <= k THEN s ELSE SubSeq(s, Len(s) - k + 1, Len(s))

RECURSIVE DecimalOf(_)
\* the decimal integer written by the digit characters s, first typed first
DecimalOf(s) == IF s = <<>> THEN 0 ELSE 10 * DecimalOf(Front(s)) + (Last(s) - Ch0)

AllDigits(s) == \A i \in 1 .. Len(s) : IsDigit(s[i])

IsFrequencyCommand(ch) == ToUpper(ch) \in {ChN, ChS, ChT}

\* the last call was parseCommand() on the last character of a kept line
AtLineEnd == keep /\ pc = "loop" /\ line # <<>> /\ c = Last(line)

\* ------------------------------------------------------------------------
\* C1
\* ------------------------------------------------------------------------

\* C1 (as claimed): n >= 1 digit characters typed directly after a terminator
\* and followed by S, T or N finalize to the decimal integer of the last
\* min(n, 8) digits, whatever n is.
C1_DigitsFinalize ==
    (/\ AtLineEnd
     /\ prev # 0
     /\ IsFrequencyCommand(c)
     /\ Len(line) >= 2
     /\ AllDigits(Front(line)))
    => (/\ RawInteger(digitArray) = U32(DecimalOf(LastN(Front(line), 8)))
        /\ value = FFromInt(DecimalOf(LastN(Front(line), 8))))

\* ------------------------------------------------------------------------
\* C2
\* ------------------------------------------------------------------------

\* the digit characters of s, in typing order
DigitsOf(s) == SelectSeq(s, IsDigit)

\* the position of the first decimal point of s
DotPos(s) == CHOOSE i \in 1 .. Len(s) : s[i] = ChDot /\ \A j \in 1 .. i - 1 : s[j] # ChDot

\* the number of digits typed after the decimal point, 0 without a point
Fraction(s) == IF Dots(s) = 0 THEN 0 ELSE Len(s) - DotPos(s)

RECURSIVE TenTo(_)
TenTo(k) == IF k = 0 THEN 1 ELSE 10 * TenTo(k - 1)

\* digits with exactly one decimal point and at least one digit
IsPointEntry(s) ==
    /\ \A i \in 1 .. Len(s) : IsDigit(s[i]) \/ s[i] = ChDot
    /\ Dots(s) = 1
    /\ HasDigit(s)

\* C2 (as claimed): a numeric entry with exactly one decimal point and k digits
\* after it, followed by S, finalizes to rawInteger / 10^k, rawInteger being
\* the integer formed by all typed digits, however many digits were typed.
C2_AllDigits ==
    (AtLineEnd /\ c = ChS /\ IsPointEntry(Front(line)))
    => value = FDiv(FFromInt(DecimalOf(DigitsOf(Front(line)))),
                    FFromInt(TenTo(Fraction(Front(line)))))

\* C2 (amended): a numeric entry of at most 8 digits with exactly one decimal
\* point and k digits after it, followed by S, leaves rawInteger = the integer
\* formed by all typed digits, divider = 10^k, multiplier = 1, and finalizes to
\* the single-precision quotient of rawInteger by 10^k.
C2_PointFinalize ==
    (/\ AtLineEnd
     /\ c = ChS
     /\ IsPointEntry(Front(line))
     /\ Len(DigitsOf(Front(line))) <= numberOfDigits)
    => (/\ RawInteger(digitArray) = U32(DecimalOf(DigitsOf(Front(line))))
        /\ divider = U32(TenTo(Fraction(Front(line))))
        /\ multiplier = 1
        /\ value = FDiv(FFromInt(DecimalOf(DigitsOf(Front(line)))),
                        FFromInt(TenTo(Fraction(Front(line))))))

\* '1', '.', '5' then 'S': divider 10, rawInteger 15, value 1.5 = 3 * 2^-1
C2_OnePointFive ==
    /\ AtLineEnd
    /\ line = <<49, 46, 53, 83>>
    /\ divider = U32(10)
    /\ RawInteger(digitArray) = U32(15)
    /\ value = [cls |-> "num", m |-> 12582912, e |-> -23]

\* ------------------------------------------------------------------------
\* C3
\* ------------------------------------------------------------------------

SuffixFactor(ch) == IF ToUpper(ch) = ChK THEN 1000 ELSE 1000000

\* 1..8 digits with at most one decimal point
IsNumber(s) ==
    /\ \A i \in 1 .. Len(s) : IsDigit(s[i]) \/ s[i] = ChDot
    /\ Dots(s) <= 1
    /\ HasDigit(s)
    /\ Len(DigitsOf(s)) <= numberOfDigits

\* characters that are not digits and not in the command table
IsFiller(s) == \A i \in 1 .. Len(s) : ~IsDigit(s[i]) /\ ~IsCommand(s[i]) /\ ~IsSuffix(s[i])

\* s is a number, the suffix at position p, then filler
IsSuffixEntry(s, p) ==
    /\ IsSuffix(s[p])
    /\ IsNumber(SubSeq(s, 1, p - 1))
    /\ IsFiller(SubSeq(s, p + 1, Len(s)))

\* the value of the number d times the factor f, in single precision as
\* parseValue computes it, and exactly when raw * f is exact and the
\* quotient is an integer
IsScaled(v, d, f) ==
    LET raw == DecimalOf(DigitsOf(d))
        div == TenTo(Fraction(d))
    IN  /\ v = FDiv(FMul(FFromInt(raw), FFromInt(f)), FFromInt(div))
        /\ (raw < 16777216 \div f /\ (raw * f) % div = 0)
               => v = FFromInt((raw * f) \div div)

\* C3: a number D (1..8 digits, at most one decimal point) followed by the
\* suffix K (resp. M), then by any characters that are neither digits nor in
\* the command table, then by S, finalizes to D x 1000 (resp. D x 1000000).
C3_SuffixFinalize ==
    (AtLineEnd /\ c = ChS)
    => \A p \in 1 .. Len(line) - 1 :
          IsSuffixEntry(Front(line), p)
          => IsScaled(value, SubSeq(line, 1, p - 1), SuffixFactor(line[p]))

\* '5', 'K', ' ', 'S' finalizes to 5000
C3_FiveKiloSine ==
    /\ AtLineEnd
    /\ line = <<53, 75, 32, 83>>
    /\ value = FFromInt(5000)
    /\ Len(written) = 3

\* '1', '.', '5', 'K', 'S' finalizes to 1500
C3_DecimalKilo ==
    /\ AtLineEnd
    /\ line = <<49, 46, 53, 75, 83>>
    /\ value = FFromInt(1500)

\* ------------------------------------------------------------------------
\* C4
\* ------------------------------------------------------------------------

\* the last call was parseCommand() on the character ch
Ran(ch) == pc = "loop" /\ c = ch

RanFrequencyCommand == pc = "loop" /\ IsFrequencyCommand(c)

\* ((msbWord & 0x3FFF) << 14) | (lsbWord & 0x3FFF) of the first two words
Recombined(ws) == BitOr(BitAnd(ws[2], 16383) * 16384, BitAnd(ws[1], 16383))

\* the finalized value is a whole number of Hz (below 2^31)
IsWhole(v) == v.cls = "num" /\ FInLong(v) /\ FFromInt(FTrunc(v)) = v

\* round(n * 2^28 / 25000000) for a whole number n < 12500000, exactly:
\* 2^28 / 25000000 = 2^22 / 390625, divided in three steps of 11 bits
ExactRegister(n) ==
    LET q0 == n \div 390625
        r0 == n % 390625
        q1 == (r0 * 2048) \div 390625
        r1 == (r0 * 2048) % 390625
        q2 == (r1 * 2048) \div 390625
        r2 == (r1 * 2048) % 390625
    IN  q0 * 4194304 + q1 * 2048 + q2 + (IF 2 * r2 >= 390625 THEN 1 ELSE 0)

\* C4 (as claimed, for whole numbers of Hz): for a finalized value V with
\* V x 2^28 / 25000000 < 2^27, the first two words written by S or T recombine
\* to exactly round(V x 2^28 / 25000000), and those written by N to round(V).
C4_RoundTrip ==
    (RanFrequencyCommand /\ IsWhole(value) /\ FTrunc(value) < 12500000)
    => Recombined(written) = IF ToUpper(c) = ChN THEN FTrunc(value)
                             ELSE ExactRegister(FTrunc(value))

\* ------------------------------------------------------------------------
\* C5
\* ------------------------------------------------------------------------

\* C5: every S, T or N command, in either letter case, writes exactly three
\* words: (reg & 0x3FFF) | 0x4000, then ((reg & 0xFFFC000) >> 14) | 0x4000,
\* then 0x2000 | waveform bits, the waveform being sine for S and N and
\* triangle for T.
C5_ThreeWords ==
    RanFrequencyCommand
    => /\ Len(written) = 3
       /\ regFrequency \in 0 .. 134217727
       /\ written[1] = BitOr(BitAnd(regFrequency, 16383), 16384)
       /\ written[2] = BitOr(BitAnd(regFrequency, 268419072) \div 16384, 16384)
       /\ written[3] = BitOr(8192, waveType)
       /\ waveType = (IF ToUpper(c) = ChT THEN wTriangle ELSE wSine)

\* 's' after the digits 5, 0, 0: 500 Hz is register value 5369 = 0x14F9
C5_LowerCaseSine ==
    /\ Ran(115)
    /\ value = FFromInt(500)
    /\ written = <<21753, 16384, 8192>>

\* ------------------------------------------------------------------------
\* C6
\* ------------------------------------------------------------------------

\* C6 (as claimed, for whole numbers of Hz): the register value encoded by the
\* LSB and MSB words lies in 0 .. 0x7FFFFFF, and it is exactly 0x7FFFFFF
\* whenever the scaled value is at or above 0x8000000, that is from
\* 12500000 Hz on for S and T and from 134217728 on for N.
C6_Clamped ==
    RanFrequencyCommand
    => /\ Recombined(written) \in 0 .. 134217727
       /\ (IsWhole(value) /\ FTrunc(value) >= 12500000 /\ ToUpper(c) # ChN)
              => Recombined(written) = 134217727

\* ------------------------------------------------------------------------
\* C7
\* ------------------------------------------------------------------------

\* C7: the command O, in either letter case and in any state, writes exactly
\* the one word 0x2100 and leaves waveType, digitArray, multiplier, echo and
\* debug unchanged.
C7_Off ==
    [][(pc = "loop" /\ ToUpper(c') = ChO)
       => (/\ written' = <<8448>>
           /\ UNCHANGED <<waveType, digitArray, multiplier, echo, debug>>)]_vars

\* 'o' after T and the digit 5: one word, triangle and the digit kept
C7_OffAfterTriangle ==
    /\ Ran(111)
    /\ written = <<8448>>
    /\ waveType = wTriangle
    /\ digitArray[0] = 5

\* ------------------------------------------------------------------------
\* C8
\* ------------------------------------------------------------------------

\* bit number b of the word w
Bit(w, b) == (w \div Pow2(b)) % 2

\* C8: AD9833_writeRegister( w ) makes exactly 16 falling edges of CLK, and
\* DATA at the i-th falling edge (i = 0 .. 15) is bit 15 - i of w.
C8_MsbFirst ==
    /\ Len(edges) <= 16
    /\ \A i \in 0 .. Len(edges) - 1 : edges[i + 1] = Bit(sent, 15 - i)
    /\ wpc = "idle" => Len(edges) = 16

\* the word 0xAAAA has been sent: alternating levels, starting with 1
C8_Alternating ==
    /\ wpc = "idle"
    /\ sent = 43690
    /\ edges = <<1, 0, 1, 0, 1, 0, 1, 0, 1, 0, 1, 0, 1, 0, 1, 0>>

\* ------------------------------------------------------------------------
\* C9
\* ------------------------------------------------------------------------

\* between FSYNC_LOW() and FSYNC_HIGH() of AD9833_writeRegister
InTransmission == wpc \in {"data", "clk_low", "clk_up", "fsync_high"}

\* in initSigGen, before its call of AD9833_reset
InInit == wpc \in {"boot", "init_fsync", "init_clk"}

Framed ==
    /\ InTransmission => PORTB.FSYNC = 0
    /\ ~InTransmission => PORTB.FSYNC = 1
    /\ PORTB.CLK = 0 => InTransmission
    /\ wpc = "idle" => PORTB = PinsAfter(PORTB, <<sent>>)

ClockHighAtFsyncChange ==
    PORTB'.FSYNC # PORTB.FSYNC => PORTB.CLK = 1 /\ PORTB'.CLK = 1

\* C9 (as claimed): whenever the pins are outputs, FSYNC is low during the
\* clock pulses of a transmission and high otherwise, CLK is high whenever
\* FSYNC changes level, and FSYNC and CLK are high between transmissions.
C9_FramingAlways == [](DDRB = 7 => Framed) /\ [][ClockHighAtFsyncChange]_vars

\* C9 (amended): the same, from the first call of AD9833_writeRegister on;
\* before it, initSigGen makes the pins outputs with FSYNC and CLK low and
\* raises FSYNC while CLK is still low.
C9_Framing ==
    /\ [](~InInit => DDRB = 7 /\ Framed)
    /\ [][~InInit => ClockHighAtFsyncChange]_vars

\* the last clock pulse of a word: CLK low, FSYNC low
C9_LastPulse ==
    /\ wpc = "clk_up"
    /\ iii = 15
    /\ sent = 8192
    /\ PORTB.CLK = 0
    /\ PORTB.FSYNC = 0

\* ------------------------------------------------------------------------
\* C10
\* ------------------------------------------------------------------------

\* C10 (as claimed): an unrecognized character leaves digitArray, numeric,
\* decimal, multiplier, divider, waveType, echo and debug as they were and
\* writes no word.
C10_Ignored ==
    [][(pc = "loop" /\ IsUnrecognized(c'))
       => (/\ written' = <<>>
           /\ UNCHANGED <<digitArray, numeric, decimal, multiplier, divider,
                          waveType, echo, debug>>)]_vars

\* C10 (amended): an unrecognized character ends the numeric entry: it sets
\* numeric and decimal to 0 and, when a decimal point and a digit were
\* entered, divider to 10^(numeric - decimal + 1); it leaves digitArray,
\* multiplier, waveType, echo and debug as they were and writes no word.
C10_Terminates ==
    [][(pc = "loop" /\ IsUnrecognized(c'))
       => (/\ written' = <<>>
           /\ numeric' = 0
           /\ decimal' = 0
           /\ divider' = (IF decimal # 0 /\ numeric # 0
                          THEN U32(TenTo(numeric - decimal + 1)) ELSE divider)
           /\ UNCHANGED <<digitArray, multiplier, waveType, echo, debug>>)]_vars

\* 'X' after 5, '.', 5: the entry is ended with divider 10
C10_MidEntry ==
    /\ Ran(88)
    /\ numeric = 0
    /\ decimal = 0
    /\ divider = U32(10)
    /\ digitArray[0] = 5
    /\ digitArray[1] = 5
    /\ written = <<>>

\* ------------------------------------------------------------------------
\* C11
\* ------------------------------------------------------------------------

\* C11 (as claimed): K and M only set multiplier and leave numeric, decimal,
\* divider and digitArray unchanged.
C11_SuffixKeepsEntry ==
    [][(pc = "loop" /\ IsSuffix(c'))
       => (/\ multiplier' = SuffixFactor(c')
           /\ UNCHANGED <<numeric, decimal, divider, digitArray>>)]_vars

\* the digit ch typed as the first digit of a number
IsFirstDigit(ch) ==
    /\ digitArray' = [i \in 0 .. numberOfDigits - 1 |-> IF i = 0 THEN ch - Ch0 ELSE 0]
    /\ numeric' = 1
    /\ multiplier' = 1
    /\ divider' = U32(1)

\* C11 (amended): K and M end the numeric entry like every other character
\* that is neither a digit nor '.': they set numeric and decimal to 0 and,
\* when a decimal point and a digit were entered, divider to
\* 10^(numeric - decimal + 1); then they set multiplier to 1000 or 1000000.
\* They leave digitArray unchanged and write no word. A digit typed right
\* after K or M starts a new number.
C11_SuffixTerminates ==
    /\ [][(pc = "loop" /\ IsSuffix(c'))
          => (/\ multiplier' = SuffixFactor(c')
              /\ numeric' = 0
              /\ decimal' = 0
              /\ divider' = (IF decimal # 0 /\ numeric # 0
                             THEN U32(TenTo(numeric - decimal + 1)) ELSE divider)
              /\ written' = <<>>
              /\ UNCHANGED <<digitArray, waveType, echo, debug>>)]_vars
    /\ [][(pc = "loop" /\ IsSuffix(c) /\ IsDigit(c')) => IsFirstDigit(c')]_vars

\* 'K' after 5, '.', 5: the entry is ended with divider 10, multiplier 1000
C11_KiloMidEntry ==
    /\ Ran(75)
    /\ numeric = 0
    /\ decimal = 0
    /\ divider = U32(10)
    /\ multiplier = 1000
    /\ digitArray[0] = 5
    /\ digitArray[1] = 5

\* ------------------------------------------------------------------------
\* C12
\* ------------------------------------------------------------------------

\* C12 (as claimed): '5', 'K', '0', 'S' finalizes to 50.
C12_FiftyAfterKilo ==
    (AtLineEnd /\ line = <<53, 75, 48, 83>>) => value = FFromInt(50)

\* s is digits, the suffix at position p, then digits
IsSplitEntry(s, p) ==
    /\ 1 < p
    /\ p < Len(s)
    /\ IsSuffix(s[p])
    /\ AllDigits(SubSeq(s, 1, p - 1))
    /\ AllDigits(SubSeq(s, p + 1, Len(s)))

\* C12 (amended): digits typed after K start a new number with multiplier 1:
\* digits, K, digits D (at most 8), then S finalizes to D; '5', 'K', '0', 'S'
\* finalizes to 0.
C12_DigitsAfterKilo ==
    (AtLineEnd /\ c = ChS)
    => \A p \in 1 .. Len(line) - 1 :
          IsSplitEntry(Front(line), p)
          => /\ multiplier = 1
             /\ divider = U32(1)
             /\ RawInteger(digitArray) = U32(DecimalOf(SubSeq(line, p + 1, Len(line) - 1)))
             /\ value = FFromInt(DecimalOf(SubSeq(line, p + 1, Len(line) - 1)))

\* '5', 'K', '0', 'S': value 0, register value 0
C12_ZeroAfterKilo ==
    /\ AtLineEnd
    /\ line = <<53, 75, 48, 83>>
    /\ value = FFromInt(0)
    /\ written = <<16384, 16384, 8192>>

\* ------------------------------------------------------------------------
\* C13
\* ------------------------------------------------------------------------

\* the register value is within Tolerance of x (single precision carries 24
\* bits, the register value 27)
Tolerance == 4

IsNear(reg, x) == reg - x \in -Tolerance .. Tolerance

C13_HalfFrequency ==
    /\ Ran(ChR)
    /\ value = FFromInt(500000)
    /\ waveType = wRectangle2
    /\ written[3] = 8224
    /\ IsNear(regFrequency, 10737418)

\* ------------------------------------------------------------------------
\* C14
\* ------------------------------------------------------------------------

\* the character ch was written back to SerialUSB
IsEchoed(out, ch) == out # <<>> /\ Head(out) = <<"write", ch>>

\* C14 (as claimed): a character is written back exactly when its code is at
\* least 0x20 and echo was on when it was read; after the command E echo is
\* on iff digitArray[0] is nonzero.
C14_Echo ==
    [][pc = "loop"
       => (/\ IsEchoed(serial', c') <=> (echo # 0 /\ c' >= 32)
           /\ ToUpper(c') = ChE => (echo' # 0 <=> digitArray[0] # 0))]_vars

\* ------------------------------------------------------------------------
\* C15
\* ------------------------------------------------------------------------

\* no character has been read yet
BeforeInput == c = 0

PowerUpState ==
    /\ waveType = wReset
    /\ echo # 0
    /\ debug = 0
    /\ multiplier = 1
    /\ divider = U32(1)
    /\ RawInteger(digitArray) = U32(1000)
    /\ \A i \in 1 .. Len(written) : written[i] = 8448
    /\ pc = "loop" => written # <<>>

\* C15: before any input the waveform type is Reset, echo is on, debug is
\* off, multiplier = divider = 1 and the digit buffer holds 1000; start-up
\* writes no word but 0x2100; and S as the very first input writes the
\* words of 1000 Hz sine: register value 10737, control word 0x2000.
C15_PowerUp ==
    /\ [](BeforeInput => PowerUpState)
    /\ [][(pc = "loop" /\ BeforeInput /\ c' = ChS)
          => (/\ value' = FFromInt(1000)
              /\ regFrequency' = 10737
              /\ written' = <<27121, 16384, 8192>>
              /\ waveType' = wSine)]_vars

\* S has programmed 1000 Hz sine from the start-up buffer
C15_FirstSine ==
    /\ Ran(ChS)
    /\ digitArray = StartDigits
    /\ value = FFromInt(1000)
    /\ written = <<27121, 16384, 8192>>

\* ------------------------------------------------------------------------
\* C16
\* ------------------------------------------------------------------------

\* C16 (as claimed): once decimal is nonzero, no digit and no '.' changes it.
C16_PointKept ==
    [][(pc = "loop" /\ decimal # 0 /\ (IsDigit(c') \/ c' = ChDot))
       => decimal' = decimal]_vars

\* C16 (amended): a digit leaves decimal unchanged; every '.' sets decimal to
\* numeric + 1, whether or not it was set before, so the last '.' of an entry
\* counts; every other character resets decimal to 0.
C16_LastPointCounts ==
    [][pc = "loop"
       => (/\ IsDigit(c') => decimal' = decimal
           /\ c' = ChDot => (/\ decimal' = (numeric + 1) % 256
                             /\ UNCHANGED <<numeric, digitArray, multiplier, divider>>)
           /\ (~IsDigit(c') /\ c' # ChDot) => decimal' = 0)]_vars

\* '1', '.', '5', '.': the second '.' has moved the position from 2 to 3
C16_SecondPoint ==
    /\ keep
    /\ line = <<49, 46, 53, 46>>
    /\ numeric = 2
    /\ decimal = 3

\* ------------------------------------------------------------------------
\* C17
\* ------------------------------------------------------------------------

\* C17: S, T and N leave digitArray, multiplier and divider as they are: the
\* same command letter given again, with nothing but unrecognized characters
\* in between, writes the same three words as the first time.
C17_Repeat ==
    [][(pc = "loop" /\ last.cmd > 0 /\ ToUpper(c') = last.cmd)
       => (/\ written' = last.words
           /\ Len(written') = 3
           /\ UNCHANGED <<digitArray, multiplier, divider>>)]_vars

\* 5 MHz triangle given twice in a row
C17_TriangleTwice ==
    /\ Ran(ChT)
    /\ last.times = 2
    /\ last.cmd = ChT
    /\ value = FFromInt(5000000)
    /\ written = last.words
    /\ written = <<29492, 19660, 8194>>

\* ------------------------------------------------------------------------
\* C18
\* ------------------------------------------------------------------------

\* divider is 10^k for a k that fits 32 bits
IsPowerOfTen(d) == \E k \in 0 .. 9 : d = U32(TenTo(k))

\* C18 (as claimed): in every reachable state divider is a positive power of
\* ten; it is never 0, however many digits were typed after the point.
C18_DividerPositive == IsPowerOfTen(divider) /\ ~U32IsZero(divider)

\* the part of C18 about zero alone: divider is never 0
C18_DividerNeverZero == ~U32IsZero(divider)

\* ------------------------------------------------------------------------
\* C19
\* ------------------------------------------------------------------------

\* the register a word addresses: its top two bits
\* (0 = Control, 1 = Freq0, 2 = Freq1, 3 = Phase)
Address(w) == w \div 16384

\* a control word with the Reset bit (0x0100) set
HasReset(w) == Address(w) = 0 /\ Bit(w, 8) = 1

\* C19: waveType is always Reset, Sine or Triangle, never Rectangle or
\* Rectangle-HalfFrequency; after a frequency command (N, S, T) waveType is
\* Sine or Triangle and the control word written, the third word, is 0x2000
\* or 0x2002, without the Reset bit; the only control word ever written with
\* the Reset bit is 0x2100.
C19_WaveTypes ==
    /\ waveType \in {wReset, wSine, wTriangle}
    /\ waveType \notin {wRectangle, wRectangle2}
    /\ RanFrequencyCommand
       => /\ waveType \in {wSine, wTriangle}
          /\ Len(written) = 3
          /\ written[3] = 8192 + waveType
          /\ written[3] \in {8192, 8194}
          /\ ~HasReset(written[3])
    /\ \A i \in 1 .. Len(written) : HasReset(written[i]) => written[i] = ResetWord

\* T typed first after power-up, when waveType was still Reset: the
\* control word is 0x2002
C19_TriangleControl ==
    /\ Ran(ChT)
    /\ digitArray = StartDigits
    /\ waveType = wTriangle
    /\ written[3] = 8194

\* ------------------------------------------------------------------------
\* C20
\* ------------------------------------------------------------------------

\* the commands that write to the chip
IsWriter(ch) == ToUpper(ch) \in {ChO, ChN, ChS, ChT}

\* C20: after start-up, a character other than O, N, S, T (a digit, '.', K,
\* M, E, Z, '?' or an unrecognized character) transmits no word and leaves
\* the output lines as they were, while O, N, S and T do transmit; and every
\* word transmitted addresses the register Control (top bits 00) or Freq0
\* (top bits 01), never Freq1 or Phase.
C20_WritesOnlyOnCommand ==
    /\ [](\A i \in 1 .. Len(written) : Address(written[i]) \in {0, 1})
    /\ [][pc = "loop"
          => IF IsWriter(c')
             THEN written' # <<>>
             ELSE written' = <<>> /\ UNCHANGED <<PORTB, DDRB>>]_vars

\* Z after T and the digit 5: no word, the lines idle (FSYNC and CLK high)
C20_DebugAfterTriangle ==
    /\ Ran(ChZ)
    /\ waveType = wTriangle
    /\ debug = 5
    /\ written = <<>>
    /\ PORTB = [DATA |-> 0, CLK |-> 1, FSYNC |-> 1]

=============================================================================
